---- MODULE Spec2Model ----
(***************************************************************************)
(* Block-mode acquisition scripts of picosdk-python-wrappers:              *)
(*   picoscope-2206B.py                  (script = "ps2000a")              *)
(*   ps6000Examples/ps6000BlockExample.py (script = "ps6000")              *)
(* Each script is a straight-line program; one action per statement group  *)
(* (one driver call together with the assert_pico_ok that follows it).     *)
(* The vendor driver is the environment: the status every call returns and *)
(* the values it writes through its out-pointers are chosen with \E.       *)
(*                                                                         *)
(* Units.  SAMPLING_FREQUENCY is held in units of 500 kHz (the script's    *)
(* value 500e3 is 1), ACQUISITION_TIME in microseconds, intervals in ns.   *)
(* Sample buffers and converted waveforms are held by their lengths; the   *)
(* time axis is held as the arguments of np.linspace and read through      *)
(* linspaceAt as an exact fraction.                                        *)
(***************************************************************************)
EXTENDS Integers, Sequences, FiniteSets, TLC

VARIABLES
    script,              \* which of the two scripts runs
    SAMPLING_FREQUENCY,  \* requested sampling frequency, units of 500 kHz
    ACQUISITION_TIME,    \* requested duration, microseconds
    pc,                  \* statement group about to execute
    timebase,
    totalSamples,        \* totalSamples (2206B) / maxSamples (ps6000)
    preTriggerSamples,
    postTriggerSamples,
    status,              \* the status dict: operation name -> returned code
    calls,               \* driver calls issued so far, in order
    error,               \* the uncaught exception that ended the run, if any
    unitOpen,            \* driver side: the handle is open
    armed,               \* driver side: a block capture was started, not stopped
    ready,               \* ready.value
    timeIntervalns,      \* timeIntervalns.value
    runBlockArgs,        \* <<pre, post, timebase>> handed to RunBlock
    buffers,             \* buffer name -> allocated length
    bound,               \* channel -> bufferLth handed to SetDataBuffers
    getValuesArgs,       \* <<noOfSamples>> handed to GetValues
    cTotalSamples,       \* cTotalSamples.value / cmaxSamples.value
    maxADC,              \* maxADC.value
    adc2mVChAMax,        \* <<length>> of the converted list, <<>> before
    adc2mVChBMax,
    timeAxis,            \* <<[start, stop, num]>> of np.linspace, <<>> before
    plotted,
    csvRows              \* channel -> rows written to its .csv file

vars == <<script, SAMPLING_FREQUENCY, ACQUISITION_TIME, pc, timebase,
          totalSamples, preTriggerSamples, postTriggerSamples, status, calls,
          error, unitOpen, armed, ready, timeIntervalns, runBlockArgs,
          buffers, bound, getValuesArgs, cTotalSamples, maxADC,
          adc2mVChAMax, adc2mVChBMax, timeAxis, plotted, csvRows>>

-----------------------------------------------------------------------------
(* Bounds and inputs *)

\* sample indexes 0..MaxProbeIndex of the time axis are inspected
MaxProbeIndex == 1

\* requested frequencies: 500 kHz, 25 MHz, 40 MHz, 200 MHz, 500 MHz
Frequencies == {1, 50, 80, 400, 1000}

\* requested durations: 6 us, 10 us, 100 ms
Durations == {6, 10, 100000}

\* the values the script ships with: 500 kHz, 1 s
DefaultConfig == <<1, 1000000>>

Configs == (Frequencies \X Durations) \cup {DefaultConfig}

Scripts == {"ps2000a", "ps6000"}

\* PICO_OK and any other status code
StatusCodes == {"PICO_OK", "PICO_ERROR"}

-----------------------------------------------------------------------------
(* Pure helpers *)

\* Python 3 round() of the fraction n/d (d > 0, n >= 0): nearest, ties to even
round(n, d) ==
    LET q == n \div d
        r == n % d
    IN  IF 2 * r < d THEN q
        ELSE IF 2 * r > d THEN q + 1
        ELSE IF q % 2 = 0 THEN q ELSE q + 1

RECURSIVE Pow2(_)
Pow2(k) == IF k = 0 THEN 1 ELSE 2 * Pow2(k - 1)

\* round(log(500e6/F, 2)) for 125 MHz <= F <= 500 MHz:
\* the k with 2^(k-1/2) <= 1000/f < 2^(k+1/2), compared on the squares
roundLog2(f) ==
    CHOOSE k \in 0..2 :
        /\ Pow2(2 * k) * f * f <= 2000000
        /\ 2000000 < Pow2(2 * k + 2) * f * f

EmptyMap == [k \in {} |-> 0]

Put(m, k, v) == [x \in DOMAIN m \cup {k} |-> IF x = k THEN v ELSE m[x]]

Ops(log) == {log[i].op : i \in 1..Len(log)}

Min(a, b) == IF a <= b THEN a ELSE b

-----------------------------------------------------------------------------
(* Configuration, picoscope-2206B.py lines 17-28 and 79-80 *)

\* lines 18-23: two regimes around 125 MHz (f = 250)
Timebase(f) ==
    IF f >= 250 THEN roundLog2(f) ELSE round(125 + 2 * f, f)

\* lines 27-28: round(ACQUISITION_TIME / (1 / SAMPLING_FREQUENCY)); the inputs
\* of Configs are ones on which the float quotient is not a rounding tie
TotalSamples(f, t) == round(t * f, 2)

\* a split that rounds every half up instead of to even
PreTriggerHalfUp(total) == (total + 1) \div 2

\* line 79
PreTrigger(total) == round(total, 2)

\* a split that takes the same half twice
PostTriggerSameHalf(total, pre) == pre

\* line 80
PostTrigger(total, pre) == total - pre

\* the interval the driver reports for a timebase: the script's own account of
\* it (2206B lines 20 and 83; ps6000 line 76)
PS6000_TIMEBASE_8_NS == 80

TimeIntervalNs(s, tb) ==
    IF s = "ps6000" THEN PS6000_TIMEBASE_8_NS
    ELSE IF tb >= 3 THEN (tb - 2) * 16 ELSE Pow2(tb) * 2

\* ps6000BlockExample.py lines 55-56, 67, 131
PS6000_PRE_TRIGGER == 2500
PS6000_POST_TRIGGER == 2500
PS6000_TIMEBASE == 8
MAX_ADC == 32512

-----------------------------------------------------------------------------
(* The driver as seen by the scripts *)

\* only 2206B follows its calls with assert_pico_ok, and not the isReady poll
Asserted(op) == script = "ps2000a" /\ op # "isReady"

\* a call on a handle that was never opened cannot succeed
Returns == IF unitOpen THEN StatusCodes ELSE {"PICO_ERROR"}

\* GetValues writes back the number of samples it delivered
ReturnedCounts(n) == {c \in {n, n - 1} : c >= 0}

\* the call is recorded, its status stored, and assert_pico_ok raises on failure
Call(op, st, next) ==
    /\ calls' = Append(calls, [op |-> op, st |-> st])
    /\ status' = Put(status, op, st)
    /\ IF st # "PICO_OK" /\ Asserted(op)
         THEN /\ pc' = "raised"
              /\ error' = <<[kind |-> "PicoSDKCtypesError", at |-> op]>>
         ELSE /\ pc' = next
              /\ error' = error

cfgVars == <<script, SAMPLING_FREQUENCY, ACQUISITION_TIME>>
splitVars == <<timebase, totalSamples, preTriggerSamples, postTriggerSamples>>
devVars == <<unitOpen, armed>>
bufVars == <<buffers, bound, getValuesArgs, cTotalSamples>>
outVars == <<adc2mVChAMax, adc2mVChBMax, timeAxis, plotted, csvRows>>

-----------------------------------------------------------------------------
Init ==
    /\ script \in Scripts
    /\ \E c \in Configs :
         /\ SAMPLING_FREQUENCY = IF script = "ps2000a" THEN c[1] ELSE 0
         /\ ACQUISITION_TIME = IF script = "ps2000a" THEN c[2] ELSE 0
    /\ pc = IF script = "ps2000a" THEN "config" ELSE "openunit"
    /\ timebase = 0
    /\ totalSamples = 0
    /\ preTriggerSamples = 0
    /\ postTriggerSamples = 0
    /\ status = EmptyMap
    /\ calls = <<>>
    /\ error = <<>>
    /\ unitOpen = FALSE
    /\ armed = FALSE
    /\ ready = 0
    /\ timeIntervalns = 0
    /\ runBlockArgs = <<>>
    /\ buffers = EmptyMap
    /\ bound = EmptyMap
    /\ getValuesArgs = <<>>
    /\ cTotalSamples = 0
    /\ maxADC = 0
    /\ adc2mVChAMax = <<>>
    /\ adc2mVChBMax = <<>>
    /\ timeAxis = <<>>
    /\ plotted = FALSE
    /\ csvRows = EmptyMap

\* 2206B lines 17-29
Configure ==
    /\ pc = "config"
    /\ timebase' = Timebase(SAMPLING_FREQUENCY)
    /\ totalSamples' = TotalSamples(SAMPLING_FREQUENCY, ACQUISITION_TIME)
    /\ pc' = "openunit"
    /\ UNCHANGED <<cfgVars, preTriggerSamples, postTriggerSamples, status,
                   calls, error, devVars, ready, timeIntervalns, runBlockArgs,
                   bufVars, maxADC, outVars>>

OpenUnit ==
    /\ pc = "openunit"
    /\ \E st \in StatusCodes :
         /\ Call("openunit", st, "setChA")
         /\ unitOpen' = (st = "PICO_OK")
    /\ UNCHANGED <<cfgVars, splitVars, armed, ready, timeIntervalns,
                   runBlockArgs, bufVars, maxADC, outVars>>

SetChannelA ==
    /\ pc = "setChA"
    /\ \E st \in Returns : Call("setChA", st, "setChB")
    /\ UNCHANGED <<cfgVars, splitVars, devVars, ready, timeIntervalns,
                   runBlockArgs, bufVars, maxADC, outVars>>

SetChannelB ==
    /\ pc = "setChB"
    /\ \E st \in Returns : Call("setChB", st, "trigger")
    /\ UNCHANGED <<cfgVars, splitVars, devVars, ready, timeIntervalns,
                   runBlockArgs, bufVars, maxADC, outVars>>

SetSimpleTrigger ==
    /\ pc = "trigger"
    /\ \E st \in Returns : Call("trigger", st, "getTimebase2")
    /\ UNCHANGED <<cfgVars, splitVars, devVars, ready, timeIntervalns,
                   runBlockArgs, bufVars, maxADC, outVars>>

\* 2206B lines 79-99; ps6000 lines 55-70
GetTimebase2 ==
    /\ pc = "getTimebase2"
    /\ IF script = "ps2000a"
         THEN /\ preTriggerSamples' = PreTrigger(totalSamples)
              /\ postTriggerSamples' =
                     PostTrigger(totalSamples, PreTrigger(totalSamples))
              /\ UNCHANGED <<timebase, totalSamples>>
         ELSE /\ preTriggerSamples' = PS6000_PRE_TRIGGER
              /\ postTriggerSamples' = PS6000_POST_TRIGGER
              /\ totalSamples' = PS6000_PRE_TRIGGER + PS6000_POST_TRIGGER
              /\ timebase' = PS6000_TIMEBASE
    /\ \E st \in Returns :
         /\ Call("getTimebase2", st, "runBlock")
         /\ timeIntervalns' = IF st = "PICO_OK"
                                THEN TimeIntervalNs(script, timebase')
                                ELSE timeIntervalns
    /\ UNCHANGED <<cfgVars, devVars, ready, runBlockArgs, bufVars, maxADC,
                   outVars>>

\* 2206B lines 117-126; ps6000 line 82
RunBlock ==
    /\ pc = "runBlock"
    /\ runBlockArgs' = <<preTriggerSamples, postTriggerSamples, timebase>>
    /\ \E st \in Returns :
         /\ Call("runBlock", st, "isReady")
         /\ armed' = (st = "PICO_OK")
    /\ UNCHANGED <<cfgVars, splitVars, unitOpen, ready, timeIntervalns,
                   bufVars, maxADC, outVars>>

\* the poll is recorded once: a repeated poll overwrites the entry of the last
PollLog(st) ==
    IF Len(calls) > 0 /\ calls[Len(calls)].op = "isReady"
      THEN [calls EXCEPT ![Len(calls)] = [op |-> "isReady", st |-> st]]
      ELSE Append(calls, [op |-> "isReady", st |-> st])

\* a poll whose status is asserted like the status of every other call
IsReadyAsserted ==
    /\ pc = "isReady"
    /\ \E st \in Returns :
         /\ calls' = PollLog(st)
         /\ status' = Put(status, "isReady", st)
         /\ \E r \in (IF st = "PICO_OK" THEN {0, 1} ELSE {ready}) : ready' = r
         /\ IF st # "PICO_OK"
              THEN /\ pc' = "raised"
                   /\ error' = <<[kind |-> "PicoSDKCtypesError", at |-> "isReady"]>>
              ELSE /\ pc' = IF ready' = 0 THEN "isReady" ELSE "setDataBuffersA"
                   /\ error' = error
    /\ UNCHANGED <<cfgVars, splitVars, devVars, timeIntervalns,
                   runBlockArgs, bufVars, maxADC, outVars>>

\* one iteration of the while loop, 2206B lines 129-132; ps6000 lines 85-88:
\* the status is stored and never looked at, the loop ends on ready.value # 0
IsReady ==
    /\ pc = "isReady"
    /\ \E st \in Returns :
         /\ calls' = PollLog(st)
         /\ status' = Put(status, "isReady", st)
         /\ \E r \in (IF st = "PICO_OK" THEN {0, 1} ELSE {ready}) : ready' = r
    /\ pc' = IF ready' = 0 THEN "isReady" ELSE "setDataBuffersA"
    /\ UNCHANGED <<cfgVars, splitVars, error, devVars, timeIntervalns,
                   runBlockArgs, bufVars, maxADC, outVars>>

\* 2206B lines 135-155; ps6000 lines 91-103
SetDataBuffersA ==
    /\ pc = "setDataBuffersA"
    /\ buffers' = [b \in {"bufferAMax", "bufferAMin", "bufferBMax", "bufferBMin"}
                     |-> totalSamples]
    /\ bound' = Put(bound, "A", totalSamples)
    /\ \E st \in Returns : Call("setDataBuffersA", st, "setDataBuffersB")
    /\ UNCHANGED <<cfgVars, splitVars, devVars, ready, timeIntervalns,
                   runBlockArgs, getValuesArgs, cTotalSamples, maxADC, outVars>>

\* 2206B lines 165-172; ps6000 line 112
SetDataBuffersB ==
    /\ pc = "setDataBuffersB"
    /\ bound' = Put(bound, "B", totalSamples)
    /\ \E st \in Returns : Call("setDataBuffersB", st, "getValues")
    /\ UNCHANGED <<cfgVars, splitVars, devVars, ready, timeIntervalns,
                   runBlockArgs, buffers, getValuesArgs, cTotalSamples, maxADC,
                   outVars>>

\* 2206B lines 175-187; ps6000 lines 115-126: the count goes in and comes back
\* through the same c_int32
GetValues ==
    /\ pc = "getValues"
    /\ getValuesArgs' = <<totalSamples>>
    /\ \E st \in Returns :
         /\ Call("getValues", st, "maximumValue")
         /\ \E n \in (IF st = "PICO_OK" THEN ReturnedCounts(totalSamples)
                                        ELSE {totalSamples}) :
              cTotalSamples' = n
    /\ UNCHANGED <<cfgVars, splitVars, devVars, ready, timeIntervalns,
                   runBlockArgs, buffers, bound, maxADC, outVars>>

\* 2206B lines 193-195
MaximumValue ==
    /\ pc = "maximumValue"
    /\ script = "ps2000a"
    /\ \E st \in Returns :
         /\ Call("maximumValue", st, "convert")
         /\ maxADC' = IF st = "PICO_OK" THEN MAX_ADC ELSE maxADC
    /\ UNCHANGED <<cfgVars, splitVars, devVars, ready, timeIntervalns,
                   runBlockArgs, bufVars, outVars>>

\* ps6000 line 131: no driver call, the value is written in the script
AssumeMaxADC ==
    /\ pc = "maximumValue"
    /\ script = "ps6000"
    /\ maxADC' = MAX_ADC
    /\ pc' = "convert"
    /\ UNCHANGED <<cfgVars, splitVars, status, calls, error, devVars, ready,
                   timeIntervalns, runBlockArgs, bufVars, outVars>>

\* the stop argument of np.linspace: 2206B line 202; ps6000 line 138
LinspaceStop(s, n, dt) == IF s = "ps2000a" THEN n * (dt - 1) ELSE n * dt

\* adc2mV returns one value per element of the buffer it is given
adc2mV(bufferLen) == <<bufferLen>>

\* 2206B lines 198-202; ps6000 lines 134-138
Convert ==
    /\ pc = "convert"
    /\ adc2mVChAMax' = adc2mV(buffers["bufferAMax"])
    /\ adc2mVChBMax' = adc2mV(buffers["bufferBMax"])
    /\ timeAxis' = <<[start |-> 0,
                      stop |-> LinspaceStop(script, cTotalSamples, timeIntervalns),
                      num |-> cTotalSamples]>>
    /\ pc' = "plot"
    /\ UNCHANGED <<cfgVars, splitVars, status, calls, error, devVars, ready,
                   timeIntervalns, runBlockArgs, bufVars, maxADC, plotted,
                   csvRows>>

\* 2206B lines 206-210; ps6000 lines 141-145: plot(x, y) raises ValueError when
\* x and y differ in length
Plot ==
    /\ pc = "plot"
    /\ IF /\ adc2mVChAMax[1] = timeAxis[1].num
          /\ adc2mVChBMax[1] = timeAxis[1].num
         THEN /\ plotted' = TRUE
              /\ pc' = IF script = "ps2000a" THEN "stop" ELSE "close"
              /\ error' = error
         ELSE /\ plotted' = plotted
              /\ pc' = "raised"
              /\ error' = <<[kind |-> "ValueError", at |-> "plot"]>>
    /\ UNCHANGED <<cfgVars, splitVars, status, calls, devVars, ready,
                   timeIntervalns, runBlockArgs, bufVars, maxADC, adc2mVChAMax,
                   adc2mVChBMax, timeAxis, csvRows>>

\* 2206B lines 215-216; ps6000 has no such call
Stop ==
    /\ pc = "stop"
    /\ \E st \in Returns :
         /\ Call("stop", st, "close")
         /\ armed' = IF st = "PICO_OK" THEN FALSE ELSE armed
    /\ UNCHANGED <<cfgVars, splitVars, unitOpen, ready, timeIntervalns,
                   runBlockArgs, bufVars, maxADC, outVars>>

\* 2206B lines 219-220; ps6000 line 152, which drops the returned status
CloseUnit ==
    /\ pc = "close"
    /\ \E st \in Returns :
         /\ IF script = "ps2000a"
              THEN Call("close", st, "csv")
              ELSE /\ calls' = Append(calls, [op |-> "close", st |-> st])
                   /\ pc' = "done"
                   /\ UNCHANGED <<status, error>>
         /\ unitOpen' = IF st = "PICO_OK" THEN FALSE ELSE unitOpen
         /\ armed' = IF st = "PICO_OK" THEN FALSE ELSE armed
    /\ UNCHANGED <<cfgVars, splitVars, ready, timeIntervalns, runBlockArgs,
                   bufVars, maxADC, outVars>>

\* 2206B lines 225-240: zip stops at the shorter of its two arguments
WriteCsv ==
    /\ pc = "csv"
    /\ csvRows' = [ch \in {"A", "B"} |->
                     Min(IF ch = "A" THEN adc2mVChAMax[1] ELSE adc2mVChBMax[1],
                         timeAxis[1].num)]
    /\ pc' = "done"
    /\ UNCHANGED <<cfgVars, splitVars, status, calls, error, devVars, ready,
                   timeIntervalns, runBlockArgs, bufVars, maxADC, adc2mVChAMax,
                   adc2mVChBMax, timeAxis, plotted>>

Next ==
    \/ Configure
    \/ OpenUnit
    \/ SetChannelA
    \/ SetChannelB
    \/ SetSimpleTrigger
    \/ GetTimebase2
    \/ RunBlock
    \/ IsReady
    \/ SetDataBuffersA
    \/ SetDataBuffersB
    \/ GetValues
    \/ MaximumValue
    \/ AssumeMaxADC
    \/ Convert
    \/ Plot
    \/ Stop
    \/ CloseUnit
    \/ WriteCsv

Spec == Init /\ [][Next]_vars

\* the interpreter runs the next statement whenever there is one
FairSpec == Spec /\ WF_vars(Next)

-----------------------------------------------------------------------------
(* Vocabulary of the properties *)

\* 2206B line 30: "Buffer memory size: 32 M"
BUFFER_MEMORY_SAMPLES == 32000000

CallNames == [i \in 1..Len(calls) |-> calls[i].op]

Issued(op) == op \in Ops(calls)

Terminated == pc \in {"done", "raised"}

Opened == \E i \in 1..Len(calls) :
              calls[i].op = "openunit" /\ calls[i].st = "PICO_OK"

WaveformProduced == timeAxis # <<>>

IsPrefix(a, b) == Len(a) <= Len(b) /\ \A i \in 1..Len(a) : a[i] = b[i]

\* the eleven steps, with the per-channel steps written out
ElevenSteps ==
    <<"openunit", "setChA", "setChB", "trigger", "getTimebase2", "runBlock",
      "isReady", "setDataBuffersA", "setDataBuffersB", "getValues",
      "maximumValue", "stop", "close">>

\* element i (from 0) of np.linspace(start, stop, num), as <<numerator, denominator>>
linspaceAt(ax, i) ==
    IF ax.num = 1 THEN <<ax.start, 1>>
    ELSE <<ax.start * (ax.num - 1) + i * (ax.stop - ax.start), ax.num - 1>>

\* the indexes of the axis that are inspected
Probes(ax) == {i \in 0..MaxProbeIndex : i < ax.num}

\* fraction a is less than fraction b (positive denominators)
FracLess(a, b) == a[1] * b[2] < b[1] * a[2]

-----------------------------------------------------------------------------
(* Properties *)

\* C1: the driver calls of a run are issued in the order of the eleven steps,
\* and a run that ends successfully has issued every one of them.
C1_FixedOrder ==
    /\ IsPrefix(CallNames, ElevenSteps)
    /\ pc = "done" => CallNames = ElevenSteps

\* C2: a driver call that returns a non-success status is the last call of the
\* run, the run ends in an error naming that operation, and (for the calls
\* that precede conversion) nothing is converted, plotted or written.
C2_FailFast ==
    \A i \in 1..Len(calls) :
        calls[i].st # "PICO_OK" =>
            /\ i = Len(calls)
            /\ pc = "raised"
            /\ error # <<>>
            /\ error[1].at = calls[i].op
            /\ calls[i].op \notin {"stop", "close"} =>
                   ~WaveformProduced /\ ~plotted /\ csvRows = EmptyMap

\* C3: a run that opened the device and has ended, on whatever path, has
\* issued the stop and the close call.
C3_StopCloseOnEveryExit ==
    (Terminated /\ Opened) => (Issued("stop") /\ Issued("close"))

\* C4 as claimed: a run that is in the ready-poll loop eventually leaves it.
C4_PollEnds == (pc = "isReady") ~> (pc # "isReady")

\* C4 as amended: a step taken in the poll loop stays in the loop exactly when
\* the ready flag is still 0 after it, whatever status the poll returned, and
\* raises nothing: there is no bound and no timeout error.
C4_PollUntilReady ==
    [][pc = "isReady" =>
          /\ (pc' = "isReady") <=> (ready' = 0)
          /\ error' = error]_vars

\* C4 witness: the poll call failed on an open, armed unit of the 2206B run and
\* the run is still polling.
C4_Witness ==
    /\ script = "ps2000a"
    /\ pc = "isReady"
    /\ armed
    /\ "isReady" \in DOMAIN status
    /\ status["isReady"] = "PICO_ERROR"
    /\ ready = 0

\* C5: when totalSamples exceeds the buffer memory of the device no driver
\* call is made.
C5_CapacityCheckedFirst ==
    totalSamples > BUFFER_MEMORY_SAMPLES => calls = <<>>

\* C6 as claimed: the split handed to RunBlock sums to totalSamples and its
\* pre-trigger part is floor(totalSamples / 2).
C6_FloorSplit ==
    runBlockArgs # <<>> =>
        /\ runBlockArgs[1] + runBlockArgs[2] = totalSamples
        /\ runBlockArgs[1] = totalSamples \div 2

\* C6 as amended: the split handed to RunBlock sums to totalSamples; its
\* pre-trigger part is totalSamples / 2 for even totalSamples, and for odd
\* totalSamples it is the even one of floor and ceiling of totalSamples / 2.
C6_RoundSplit ==
    runBlockArgs # <<>> =>
        /\ runBlockArgs[1] + runBlockArgs[2] = totalSamples
        /\ totalSamples % 2 = 0 => 2 * runBlockArgs[1] = totalSamples
        /\ totalSamples % 2 = 1 =>
               /\ runBlockArgs[1] % 2 = 0
               /\ runBlockArgs[1] \in {totalSamples \div 2, totalSamples \div 2 + 1}

\* C6 witness: RunBlock was called with an odd totalSamples whose half rounds up.
C6_Witness ==
    /\ Issued("runBlock")
    /\ totalSamples % 4 = 3
    /\ runBlockArgs[1] = totalSamples \div 2 + 1

\* C7: once the driver has reported the interval of the resolved timebase,
\* totalSamples is round(duration / that interval).
C7_SamplesFromActualInterval ==
    (script = "ps2000a" /\ timeIntervalns > 0) =>
        totalSamples = round(ACQUISITION_TIME * 1000, timeIntervalns)

\* C8: the time axis has totalSamples points, starts at 0, is strictly
\* increasing, and its point i is i times the interval the driver reported.
C8_TimeAxis ==
    WaveformProduced =>
        LET ax == timeAxis[1] IN
        /\ ax.num = totalSamples
        /\ linspaceAt(ax, 0)[1] = 0
        /\ \A i \in Probes(ax) :
               linspaceAt(ax, i)[1] = i * timeIntervalns * linspaceAt(ax, i)[2]
        /\ \A i \in Probes(ax) :
               (i + 1 < ax.num) =>
                   FracLess(linspaceAt(ax, i), linspaceAt(ax, i + 1))

\* C9: whenever a waveform exists, both converted channels have as many
\* values as the time axis has points.
C9_AlignedLengths ==
    WaveformProduced =>
        /\ adc2mVChAMax[1] = timeAxis[1].num
        /\ adc2mVChBMax[1] = timeAxis[1].num

\* C10: once the transfer call has been issued, the samples armed by RunBlock,
\* the length of each of the four buffers, the length declared when binding
\* each channel and the count requested from the transfer are one value.
C10_OneSampleCount ==
    Issued("getValues") =>
        LET n == runBlockArgs[1] + runBlockArgs[2] IN
        /\ \A b \in DOMAIN buffers : buffers[b] = n
        /\ DOMAIN buffers =
               {"bufferAMax", "bufferAMin", "bufferBMax", "bufferBMin"}
        /\ DOMAIN bound = {"A", "B"}
        /\ \A ch \in DOMAIN bound : bound[ch] = n
        /\ getValuesArgs = <<n>>

\* C10 witness: the transfer succeeded on an odd number of samples.
C10_Witness ==
    /\ Issued("getValues")
    /\ status["getValues"] = "PICO_OK"
    /\ totalSamples % 2 = 1
    /\ preTriggerSamples # postTriggerSamples

====
